---- MODULE Spec2Model ----
(***************************************************************************)
(* Model of Form700_Blocking (scripts/eth_seisync/netfile_client.py):      *)
(* the paginated extract / transform / load run performed by sync().       *)
(*                                                                         *)
(* Python strings that the code inspects or builds (dates, office and      *)
(* income-source names) are sequences of one-character strings; strings    *)
(* the code only copies are TLA+ strings.  Python None is the value None.  *)
(***************************************************************************)
EXTENDS Integers, Sequences, FiniteSets, TLC

(* ------------------------------------------------------------------ *)
(* Bounds of the model                                                  *)
(* ------------------------------------------------------------------ *)

\* largest totalMatchingPages page 1 of the schedule endpoint reports
MaxPages == 3

\* largest totalMatchingPages page 1 of the cover endpoint reports
MaxCoverPages == 2

(* ------------------------------------------------------------------ *)
(* Program constants                                                    *)
(* ------------------------------------------------------------------ *)

\* params['PageSize']
PageSize == 1000

\* chunk length of loadData: data[x:x + 1000]
ChunkSize == 1000

\* self.schedules
schedules ==
  <<"cover", "comments", "scheduleA1", "scheduleA2", "scheduleB",
    "scheduleC", "scheduleD", "scheduleE">>

\* the categories of the schedule endpoint: self.schedules without 'cover'
ScheduleTypes == { schedules[i] : i \in 2..Len(schedules) }

Categories == { schedules[i] : i \in 1..Len(schedules) }

\* self.filer_cols
filer_cols ==
  {"filingId", "filerName", "departmentName", "positionName", "offices",
   "periodStart", "periodEnd", "filingDate"}

\* Python None
None == <<"None">>

(* ------------------------------------------------------------------ *)
(* Strings                                                              *)
(* ------------------------------------------------------------------ *)

Digit == {"0", "1", "2", "3", "4", "5", "6", "7", "8", "9"}

AllDigits(s) == \A i \in 1..Len(s) : s[i] \in Digit

\* str.zfill(width) on a string of digits
zfill(s, width) ==
  IF Len(s) >= width THEN s
  ELSE [i \in 1..(width - Len(s)) |-> "0"] \o s

\* sep.join(parts)
RECURSIVE join(_, _)
join(sep, parts) ==
  IF Len(parts) = 0 THEN <<>>
  ELSE IF Len(parts) = 1 THEN parts[1]
  ELSE parts[1] \o sep \o join(sep, Tail(parts))

\* the positions (i, j) of the two slashes of  ^(\d+)\/(\d+)\/(\d{4})  in s,
\* the pattern ending at position last
SlashPairs(s, last) ==
  LET slashes == { i \in 1..last : s[i] = "/" }
  IN  { p \in slashes \X slashes :
          /\ p[1] > 1
          /\ p[2] > p[1] + 1
          /\ last = p[2] + 4
          /\ AllDigits(SubSeq(s, 1, p[1] - 1))
          /\ AllDigits(SubSeq(s, p[1] + 1, p[2] - 1))
          /\ AllDigits(SubSeq(s, p[2] + 1, last)) }

\* where  ^(\d+)\/(\d+)\/(\d{4})$  ends in s: '$' matches at the end of the
\* string and also just before a newline that ends it
MatchEnds(s) ==
  { last \in {Len(s)} \cup
             (IF Len(s) > 0 /\ s[Len(s)] = "\n" THEN {Len(s) - 1} ELSE {}) :
      SlashPairs(s, last) # {} }

regex_match(s) == MatchEnds(s) # {}

castDate(date) ==
  IF date = None THEN None
  ELSE IF date = <<>> THEN None
  ELSE IF regex_match(date) THEN
    LET last  == CHOOSE l \in MatchEnds(date) : TRUE
        p     == CHOOSE q \in SlashPairs(date, last) : TRUE
        month == zfill(SubSeq(date, 1, p[1] - 1), 2)
        day   == zfill(SubSeq(date, p[1] + 1, p[2] - 1), 2)
        year  == SubSeq(date, p[2] + 1, last)
    IN  year \o <<"-">> \o month \o <<"-">> \o day
  ELSE IF Len(date) # 33 THEN date
  ELSE SubSeq(date, 1, 19)

\* the text between the two fields of an office: the f-string literal is
\* continued on the next source line, whose 28 leading blanks belong to it
OfficeSeparator == <<" ", "-", " ">> \o [i \in 1..28 |-> " "]

flattenOffices(offices) ==
  join(<<" ">>,
       [i \in 1..Len(offices) |->
          offices[i].filerPosition \o OfficeSeparator
            \o offices[i].filerDivisionBoardDistrict])

flattenIncomeSources(income_sources) ==
  join(<<"|">>, [i \in 1..Len(income_sources) |-> income_sources[i].name])

(* ------------------------------------------------------------------ *)
(* Configuration handed to the constructor                              *)
(* ------------------------------------------------------------------ *)

\* the keys explodeScheduleA2 sets to None for an item without properties,
\* each with the key of a property it is the realProperty_ prefix of
realProperty_ ==
  [ investmentType |-> "realProperty_investmentType",
    businessName |-> "realProperty_businessName",
    parcelAddress |-> "realProperty_parcelAddress",
    descriptionOrCityOrLocation |->
      "realProperty_descriptionOrCityOrLocation",
    dateAcquired |-> "realProperty_dateAcquired",
    dateDisposed |-> "realProperty_dateDisposed",
    fairMarketValue |-> "realProperty_fairMarketValue",
    fairMarketValueAsRange |-> "realProperty_fairMarketValueAsRange",
    natureOfInterest |-> "realProperty_natureOfInterest",
    natureOfInterest_LeaseYearsRemaining |->
      "realProperty_natureOfInterest_LeaseYearsRemaining",
    natureOfInterest_OtherDescription |->
      "realProperty_natureOfInterest_OtherDescription" ]

realProperty_columns == { realProperty_[k] : k \in DOMAIN realProperty_ }

\* the loan_ prefix of explodeScheduleB on the keys of a loan
loan_ ==
  [ lenderName |-> "loan_lenderName", dateIncurred |-> "loan_dateIncurred" ]

\* schema_defs: per category, column name -> type; only 'date' is
\* distinguished
schemas ==
  [ cover |->
      [ filingId |-> "number", filerName |-> "text",
        departmentName |-> "text", positionName |-> "text",
        offices |-> "text", periodStart |-> "date", periodEnd |-> "date",
        filingDate |-> "date" ],
    comments |->
      [ filingId |-> "number", filerName |-> "text", filingDate |-> "date",
        comment |-> "text" ],
    scheduleA1 |->
      [ filingId |-> "number", filerName |-> "text",
        businessName |-> "text", dateAcquired |-> "date" ],
    scheduleA2 |->
      [ k \in {"filingId", "filerName", "businessName", "incomeSources"}
              \cup realProperty_columns |->
          IF k \in {"realProperty_dateAcquired", "realProperty_dateDisposed"}
          THEN "date"
          ELSE IF k = "filingId" THEN "number" ELSE "text" ],
    scheduleB |->
      [ filingId |-> "number", filerName |-> "text",
        incomeSources |-> "text", loan_lenderName |-> "text",
        loan_dateIncurred |-> "date" ],
    scheduleC |->
      [ filingId |-> "number", filerName |-> "text",
        incomeSources |-> "text", dateReceived |-> "date" ],
    scheduleD |->
      [ filingId |-> "number", filerName |-> "text", name |-> "text",
        amount |-> "number", description |-> "text", giftDate |-> "date" ],
    scheduleE |->
      [ filingId |-> "number", filerName |-> "text", name |-> "text",
        startDate |-> "date" ] ]

\* self.date_columns, computed by __init__ from the schemas
date_columns ==
  [ schedule \in Categories |->
      { col \in DOMAIN schemas[schedule] : schemas[schedule][col] = "date" } ]

(* ------------------------------------------------------------------ *)
(* Row transformations                                                  *)
(* ------------------------------------------------------------------ *)

\* dict.update(other)
update(item, other) ==
  [ k \in DOMAIN item \cup DOMAIN other |->
      IF k \in DOMAIN other THEN other[k] ELSE item[k] ]

\* del item[key]
del(item, key) == [ k \in DOMAIN item \ {key} |-> item[k] ]

pickKeys(item, schedule_type) ==
  [ k \in DOMAIN schemas[schedule_type] |-> item[k] ]

deal_with_dates(schedule_type, item) ==
  [ k \in DOMAIN item |->
      IF k \in date_columns[schedule_type] THEN castDate(item[k])
      ELSE item[k] ]

\* variant: an item without properties gives no row, as explodeScheduleD does
\* for an item without gifts
explodeScheduleA2_dropping(item) ==
  [ i \in 1..Len(item.realProperties) |->
      LET property == item.realProperties[i]
          prefixed ==
            [ c \in { realProperty_[k] : k \in DOMAIN property } |->
                property[CHOOSE k \in DOMAIN property :
                           realProperty_[k] = c] ]
      IN  pickKeys(del(update(item, prefixed), "realProperties"),
                   "scheduleA2") ]

explodeScheduleA2(item) ==
  IF Len(item.realProperties) = 0
  THEN << pickKeys(
            del(update(item, [ k \in realProperty_columns |-> None ]),
                "realProperties"),
            "scheduleA2") >>
  ELSE [ i \in 1..Len(item.realProperties) |->
           LET property == item.realProperties[i]
               prefixed ==
                 [ c \in { realProperty_[k] : k \in DOMAIN property } |->
                     property[CHOOSE k \in DOMAIN property :
                                realProperty_[k] = c] ]
           IN  pickKeys(del(update(item, prefixed), "realProperties"),
                        "scheduleA2") ]

explodeScheduleB(item) ==
  LET prefixed ==
        [ c \in { loan_[k] : k \in DOMAIN item.loan } |->
            item.loan[CHOOSE k \in DOMAIN item.loan : loan_[k] = c] ]
  IN  pickKeys(del(update(item, prefixed), "loan"), "scheduleB")

\* new_props of explodeScheduleD
new_props == {"amount", "description", "giftDate"}

\* variant: an item without gifts gives one row, as explodeScheduleA2 does
\* for an item without properties
explodeScheduleD_keeping_parent(item) ==
  IF Len(item.gifts) = 0
  THEN << pickKeys(del(item, "gifts"), "scheduleD") >>
  ELSE [ i \in 1..Len(item.gifts) |->
           pickKeys(
             del(update(item, [ k \in new_props |-> item.gifts[i][k] ]),
                 "gifts"),
             "scheduleD") ]

explodeScheduleD(item) ==
  [ i \in 1..Len(item.gifts) |->
      pickKeys(
        del(update(item, [ k \in new_props |-> item.gifts[i][k] ]), "gifts"),
        "scheduleD") ]

(* ------------------------------------------------------------------ *)
(* Responses of the source API and of the catalog                       *)
(* ------------------------------------------------------------------ *)

\* a user-entered date, a Netfile timestamp and an ISO date
UserDate == <<"3", "/", "4", "/", "2", "0", "2", "1">>

NetfileTimestamp ==
  <<"2", "0", "1", "9", "-", "1", "2", "-", "3", "0", "T", "0", "0", ":", "0", "0", ":">> \o
  <<"0", "0", ".", "0", "0", "0", "0", "0", "0", "0", "-", "0", "8", ":", "0", "0">>

IsoDate == <<"2", "0", "2", "1", "-", "0", "3", "-", "0", "4">>

\* one filing of a cover page; 'isAmendment' is a field no schema keeps
Filing(id) ==
  [ filingId |-> id,
    filerName |-> IF id = 1 THEN "Ann" ELSE "Bob",
    departmentName |-> "Ethics",
    positionName |-> "Analyst",
    offices |->
      IF id = 1
      THEN << [ filerPosition |-> <<"M">>,
                filerDivisionBoardDistrict |-> <<"1">> ],
              [ filerPosition |-> <<"C">>,
                filerDivisionBoardDistrict |-> <<"2">> ] >>
      ELSE <<>>,
    periodStart |-> IF id = 1 THEN NetfileTimestamp ELSE None,
    periodEnd |-> IF id = 1 THEN IsoDate ELSE <<>>,
    filingDate |-> IF id <= 2 THEN UserDate ELSE None,
    isAmendment |-> FALSE ]

\* the 'filings' lists a cover page may carry
CoverFilings == { << Filing(1) >>, << Filing(1), Filing(2) >> }

CoverCounts == {1, 2}

\* every cover page: totalMatchingCount, totalMatchingPages, filings
CoverResponses ==
  [ totalMatchingCount : CoverCounts,
    totalMatchingPages : 1..MaxCoverPages,
    filings : CoverFilings ]

RealProperty(date) ==
  [ investmentType |-> "Rental", businessName |-> "Lot",
    parcelAddress |-> "1 Main St", descriptionOrCityOrLocation |-> "SF",
    dateAcquired |-> date, dateDisposed |-> None,
    fairMarketValue |-> 10, fairMarketValueAsRange |-> "10-100",
    natureOfInterest |-> "Lease",
    natureOfInterest_LeaseYearsRemaining |-> 5,
    natureOfInterest_OtherDescription |-> "" ]

Gift(n) ==
  [ amount |-> n, description |-> "Tickets", giftDate |-> UserDate,
    giftId |-> n ]

IncomeSources == << [ name |-> <<"A">> ], [ name |-> <<"B">> ] >>

comment(id) == [ filingId |-> id, comment |-> "none" ]

itemA1(id) ==
  [ filingId |-> id, businessName |-> "Acme", dateAcquired |-> IsoDate ]

itemA2(id, realProperties) ==
  [ filingId |-> id, businessName |-> "Acme",
    incomeSources |-> IncomeSources, realProperties |-> realProperties ]

itemB(id) ==
  [ filingId |-> id, incomeSources |-> IncomeSources,
    loan |-> [ lenderName |-> "Bank", dateIncurred |-> UserDate ] ]

itemC(id) ==
  [ filingId |-> id, incomeSources |-> <<>>,
    dateReceived |-> NetfileTimestamp ]

itemD(id, gifts) ==
  [ filingId |-> id, name |-> "Donor", amount |-> 0, description |-> "",
    giftDate |-> None, gifts |-> gifts ]

itemE(id) == [ filingId |-> id, name |-> "Host", startDate |-> None ]

NoItems == [ schedule_type \in ScheduleTypes |-> <<>> ]

\* the item lists a schedule page may carry, per category
ScheduleItems ==
  { NoItems,
    [ NoItems EXCEPT !["comments"] = << comment(1) >>,
                     !["scheduleA1"] = << itemA1(1) >>,
                     !["scheduleE"] = << itemE(1) >> ],
    [ NoItems EXCEPT !["scheduleA2"] =
                       << itemA2(1, <<>>),
                          itemA2(2, << RealProperty(UserDate),
                                       RealProperty(None) >>) >> ],
    [ NoItems EXCEPT !["scheduleD"] =
                       << itemD(1, <<>>),
                          itemD(2, << Gift(1), Gift(2) >>),
                          itemD(2, <<>>) >> ],
    [ NoItems EXCEPT !["scheduleB"] = << itemB(1) >>,
                     !["scheduleC"] = << itemC(1) >> ] }

\* a full page: PageSize items of scheduleE
FullPage ==
  [ NoItems EXCEPT !["scheduleE"] = [ i \in 1..PageSize |-> itemE(1) ] ]

ScheduleCounts == {2, 3, PageSize + 3}

\* the schedule pages of index page_num: the counts and one item list per
\* category; page 1 may be a full page
ScheduleResponses(page_num) ==
  { update(items, [ totalMatchingCount |-> c, totalMatchingPages |-> p ]) :
      items \in ScheduleItems \cup (IF page_num = 1 THEN {FullPage} ELSE {}),
      c \in ScheduleCounts, p \in 1..MaxPages }

\* status codes of the responses of the source API
StatusCodes == {200, 201, 202, 500}

CatalogResult(errors, rows_created) ==
  ("Errors" :> errors) @@ ("Rows Created" :> rows_created)

\* the results the catalog returns for a chunk of n rows: without errors
\* and n - 1, n or n + 1 rows created, or with an error
CatalogResults(n) ==
  { CatalogResult(0, r) : r \in {n - 1, n, n + 1} } \cup { CatalogResult(1, n) }

(* ------------------------------------------------------------------ *)
(* State                                                                *)
(* ------------------------------------------------------------------ *)

VARIABLES
  pc,            \* position of sync()
  status_code,   \* status code of the last response of the source API
                 \* (authentication or page), 0 before the first
  current_page,  \* sync(): current_page
  total_pages,   \* sync(): total_pages
  sanity_check,  \* self.sanity_check
  data,          \* self.data, the row store per category
  was_reset,     \* self.was_reset
  filings,       \* self.filings: filingId -> filer columns
  schedule_idx,  \* position of the schedule load loop in self.schedules
  chunk_idx,     \* position of loadData in its chunks
  events,        \* requests, transforms and catalog calls, in order
  error_log,     \* what stop_all_execution logged
  raised,        \* the exception that ended the run, "none" while running
  session_open,  \* the requests.Session of sync() is open
  soda_open,     \* the Socrata client of sync() is open
  call,          \* a method called on its own: its name and argument
  outcome        \* what that call returned or raised

vars ==
  << pc, status_code, current_page, total_pages, sanity_check, data, was_reset,
     filings, schedule_idx, chunk_idx, events, error_log, raised,
     session_open, soda_open, call, outcome >>

\* what sync() did, in order:
\*   the authentication request;
\*   the request of page `page` of endpoint `cat`;
\*   the transformation of that page, `ids` the filingIds of its items in
\*   order, per category;
\*   a catalog call (op replace or upsert) sending the `rows` rows from
\*   offset x of the row store of `cat`, `res` the result, << >> when the
\*   client raised
Event(op, cat, page, ids, x, rows, res) ==
  [ op |-> op, cat |-> cat, page |-> page, ids |-> ids, x |-> x,
    rows |-> rows, res |-> res ]

AuthEvent == Event("authenticate", "", 0, << >>, 0, 0, << >>)

RequestEvent(cat, page) == Event("request", cat, page, << >>, 0, 0, << >>)

TransformEvent(cat, page, ids) ==
  Event("transform", cat, page, ids, 0, 0, << >>)

CallEvent(op, cat, x, rows, res) == Event(op, cat, 0, << >>, x, rows, res)

\* the filingIds of a list of items
FilingIds(items) == [ i \in 1..Len(items) |-> items[i].filingId ]

\* sync() is the only call of a run
NoCall == [ fn |-> "sync", arg |-> << >> ]

\* no call has ended
NoOutcome == [ raised |-> "pending", value |-> << >> ]

\* the state __init__ leaves
Init ==
  /\ pc = "authenticate"
  /\ status_code = 0
  /\ current_page = 0
  /\ total_pages = 0
  /\ sanity_check =
       [ k \in Categories \cup {"items"} |->
           IF k \in {"cover", "items"}
           THEN [ total |-> 0, received |-> 0, send |-> 0, created |-> 0 ]
           ELSE [ received |-> 0, send |-> 0, created |-> 0 ] ]
  /\ data = [ schedule \in Categories |-> << >> ]
  /\ was_reset = [ schedule \in Categories |-> FALSE ]
  /\ filings = << >>
  /\ schedule_idx = 0
  /\ chunk_idx = 0
  /\ events = << >>
  /\ error_log = << >>
  /\ raised = "none"
  /\ session_open = FALSE
  /\ soda_open = FALSE
  /\ call = NoCall
  /\ outcome = NoOutcome

(* ------------------------------------------------------------------ *)
(* Halting                                                              *)
(* ------------------------------------------------------------------ *)

\* variant: the exception leaves the session of the source API as it is
unwind_leaking(exception) ==
  /\ raised' = exception
  /\ pc' = "halted"
  /\ session_open' = session_open
  /\ soda_open' = FALSE

\* an exception leaves sync() through both with-blocks, which close the
\* session and the catalog client
unwind(exception) ==
  /\ raised' = exception
  /\ pc' = "halted"
  /\ session_open' = FALSE
  /\ soda_open' = FALSE

\* logs msg, then sys.exit(1)
stop_all_execution(msg) ==
  /\ error_log' = Append(error_log, msg)
  /\ unwind("SystemExit")

(* ------------------------------------------------------------------ *)
(* Authentication                                                       *)
(* ------------------------------------------------------------------ *)

\* variant: 202 is not accepted
auth_accepted_without_202(status) == status \in {200, 201}

\* sync(): auth.status_code not in [200, 201, 202] raises
auth_accepted(status) == status \in {200, 201, 202}

\* with Socrata(...), with requests.Session(), authenticate and its check
Authenticate ==
  /\ pc = "authenticate"
  /\ \E status \in StatusCodes \cup {401} :
       /\ status_code' = status
       /\ events' = Append(events, AuthEvent)
       /\ IF auth_accepted(status)
          THEN /\ pc' = "cover_first"
               /\ session_open' = TRUE
               /\ soda_open' = TRUE
               /\ UNCHANGED << error_log, raised >>
          ELSE stop_all_execution("Error authenticating")
  /\ UNCHANGED << current_page, total_pages, sanity_check, data, was_reset,
                  filings, schedule_idx, chunk_idx >>
  /\ UNCHANGED << call, outcome >>

(* ------------------------------------------------------------------ *)
(* Extraction of the cover pages                                        *)
(* ------------------------------------------------------------------ *)

\* variant: only a status below 500 is checked
extract_accepted_with_500(status) == status \in {200, 201, 500}

\* extractData: response.status_code not in [200, 201] raises
extract_accepted(status) == status \in {200, 201}

\* variant: the page index is not raised
page_after_stalled(page) == page

\* sync(): current_page += 1 after a page
page_after(page) == page + 1

\* variant: the rows of a page replace the rows stored before
saveResponseTemp_replacing(d, schedule_type, rows) ==
  [ d EXCEPT ![schedule_type] = rows ]

\* self.data[schedule_type].extend(data) on the row stores d
saveResponseTemp(d, schedule_type, rows) ==
  [ d EXCEPT ![schedule_type] = @ \o rows ]

\* variant: every page sets the total
captures_total_on_every_page(page_num) == TRUE

\* transformCoverResponse, transformScheduleResponse: the total is set
\* if (page_num == 1)
captures_total(page_num) == page_num = 1

\* one cover row after castDate on the date columns and flattenOffices
CoverRow(row) ==
  LET dated ==
        [ k \in DOMAIN row |->
            IF k \in date_columns["cover"] THEN castDate(row[k])
            ELSE row[k] ]
  IN  [ dated EXCEPT !.offices = flattenOffices(dated.offices) ]

\* self.filings[row['filingId']] = row_dict for rows[lo..hi] in order: a
\* later row replaces an earlier one with the same filingId
RECURSIVE Registered(_, _, _)
Registered(rows, lo, hi) ==
  IF lo > hi THEN << >>
  ELSE IF lo = hi
    THEN rows[lo].filingId :> [ key \in filer_cols |-> rows[lo][key] ]
    ELSE LET mid == (lo + hi) \div 2
         IN  Registered(rows, mid + 1, hi) @@ Registered(rows, lo, mid)

transformCoverResponse(response_json, page_num) ==
  LET rows == [ i \in 1..Len(response_json.filings) |->
                  CoverRow(response_json.filings[i]) ]
      desired == [ i \in 1..Len(rows) |-> pickKeys(rows[i], "cover") ]
      total == IF captures_total(page_num)
               THEN response_json.totalMatchingCount
               ELSE sanity_check["cover"].total
  IN  /\ filings' = Registered(rows, 1, Len(rows)) @@ filings
      /\ sanity_check' =
           [ sanity_check EXCEPT
               !["cover"].total = total,
               !["cover"].received = @ + Len(desired),
               !["cover"].send = @ + Len(desired) ]
      /\ data' = saveResponseTemp(data, "cover", desired)

\* variant: the check always passes
extractConfirmCover_unchecked == TRUE

extractConfirmCover ==
  sanity_check["cover"].total = sanity_check["cover"].received

\* variant: the loop stops one page early
cover_loop_condition_strict == current_page < total_pages

\* the condition of the cover page loop
cover_loop_condition == current_page <= total_pages

\* extractData of cover page page_num and, when the response is accepted,
\* its transformation
CoverPage(page_num) ==
  \E status \in StatusCodes :
    IF extract_accepted(status)
    THEN \E response_json \in CoverResponses :
           /\ status_code' = status
           /\ events' = events \o
                << RequestEvent("cover", page_num),
                   TransformEvent("cover", page_num,
                     [ c \in {"cover"} |->
                         FilingIds(response_json.filings) ]) >>
           /\ transformCoverResponse(response_json, page_num)
           /\ current_page' = page_after(page_num)
           /\ total_pages' = IF page_num = 1
                             THEN response_json.totalMatchingPages
                             ELSE total_pages
           /\ pc' = "cover_loop"
           /\ UNCHANGED << error_log, raised, session_open, soda_open >>
    ELSE /\ status_code' = status
         /\ events' = Append(events, RequestEvent("cover", page_num))
         /\ stop_all_execution("Error requesting Url")
         /\ UNCHANGED << current_page, total_pages, sanity_check, data,
                         filings >>

\* sync(): the first cover page
ExtractFirstCover ==
  /\ pc = "cover_first"
  /\ CoverPage(1)
  /\ UNCHANGED << was_reset, schedule_idx, chunk_idx >>
  /\ UNCHANGED << call, outcome >>

\* sync(): one iteration of the cover page loop
ExtractNextCover ==
  /\ pc = "cover_loop"
  /\ cover_loop_condition
  /\ CoverPage(current_page)
  /\ UNCHANGED << was_reset, schedule_idx, chunk_idx >>
  /\ UNCHANGED << call, outcome >>

\* sync(): after the cover page loop, the extraction check; loadData of
\* 'cover' starts when it passes
ConfirmCoverExtract ==
  /\ pc = "cover_loop"
  /\ ~cover_loop_condition
  /\ IF extractConfirmCover
     THEN /\ pc' = "cover_load"
          /\ chunk_idx' = 1
          /\ UNCHANGED << error_log, raised, session_open, soda_open >>
     ELSE /\ stop_all_execution(
               "Did not receive expected number of cover items")
          /\ UNCHANGED chunk_idx
  /\ UNCHANGED << status_code, current_page, total_pages, sanity_check,
                  data, was_reset, filings, schedule_idx, events >>
  /\ UNCHANGED << call, outcome >>

(* ------------------------------------------------------------------ *)
(* Load                                                                 *)
(* ------------------------------------------------------------------ *)

\* variant: only full chunks are sent
chunk_starts_dropping_partial(rows) ==
  [ i \in 1..(Len(rows) \div ChunkSize) |-> (i - 1) * ChunkSize ]

\* range(0, len(data), 1000)
chunk_starts(rows) ==
  [ i \in 1..((Len(rows) + ChunkSize - 1) \div ChunkSize) |->
      (i - 1) * ChunkSize ]

\* data[x:x + 1000]
chunk(rows, x) ==
  SubSeq(rows, x + 1,
         IF x + ChunkSize < Len(rows) THEN x + ChunkSize ELSE Len(rows))

\* variant: the flag is read the wrong way round
sendToDataSF_inverted(reset) == IF reset = FALSE THEN "upsert" ELSE "replace"

\* the catalog call sendToDataSF makes
sendToDataSF(reset) == IF reset = FALSE THEN "replace" ELSE "upsert"

\* variant: the check always passes
loadConfirm_unchecked(schedule_type) == TRUE

loadConfirm(schedule_type) ==
  sanity_check[schedule_type].send = sanity_check[schedule_type].created

\* variant: the rows created for cover are added to 'items' as well
counts_as_item_with_cover(schedule_type) == TRUE

\* loadData: rows created are added to 'items' if schedule_type != 'cover'
counts_as_item(schedule_type) == schedule_type # "cover"

\* the category loadData is loading
loading == IF pc = "cover_load" THEN "cover" ELSE schedules[schedule_idx]

\* loadData: one iteration of the chunk loop.  The message of the halt on
\* res['Errors'] > 0 names page_num, which loadData does not define: the
\* f-string raises NameError before stop_all_execution is called
LoadChunk ==
  /\ pc \in {"cover_load", "schedule_load"}
  /\ pc = "schedule_load" => schedule_idx <= Len(schedules)
  /\ chunk_idx <= Len(chunk_starts(data[loading]))
  /\ LET schedule_type == loading
         x == chunk_starts(data[schedule_type])[chunk_idx]
         rows == Len(chunk(data[schedule_type], x))
         op == sendToDataSF(was_reset[schedule_type])
     IN  /\ \/ /\ events' = Append(events,
                              CallEvent(op, schedule_type, x, rows, << >>))
               /\ stop_all_execution("exception of the catalog client")
               /\ UNCHANGED << was_reset, sanity_check, chunk_idx >>
            \/ \E res \in CatalogResults(rows) :
                 /\ events' = Append(events,
                                CallEvent(op, schedule_type, x, rows, res))
                 /\ was_reset' = [ was_reset EXCEPT ![schedule_type] = TRUE ]
                 /\ IF res["Errors"] > 0
                    THEN /\ unwind("NameError")
                         /\ UNCHANGED << error_log, sanity_check, chunk_idx >>
                    ELSE /\ sanity_check' =
                              [ sanity_check EXCEPT
                                  ![schedule_type].created =
                                     @ + res["Rows Created"],
                                  !["items"].created =
                                     IF counts_as_item(schedule_type)
                                     THEN @ + res["Rows Created"]
                                     ELSE @ ]
                         /\ chunk_idx' = chunk_idx + 1
                         /\ UNCHANGED << error_log, raised, pc, session_open,
                                         soda_open >>
  /\ UNCHANGED << status_code, current_page, total_pages, data,
                  filings, schedule_idx >>
  /\ UNCHANGED << call, outcome >>

\* sync(): after loadData of 'cover', the load check
ConfirmCoverLoad ==
  /\ pc = "cover_load"
  /\ chunk_idx > Len(chunk_starts(data["cover"]))
  /\ IF loadConfirm("cover")
     THEN /\ pc' = "schedule_first"
          /\ UNCHANGED << error_log, raised, session_open, soda_open >>
     ELSE stop_all_execution("Did not load expected number of cover items")
  /\ UNCHANGED << status_code, current_page, total_pages, sanity_check,
                  data, was_reset, filings, schedule_idx, chunk_idx, events >>
  /\ UNCHANGED << call, outcome >>

(* ------------------------------------------------------------------ *)
(* Extraction of the schedule pages                                     *)
(* ------------------------------------------------------------------ *)

\* variant: an item without a filing record is dropped
join_filings_dropping(items, table) ==
  LET Known(item) == item.filingId \in DOMAIN table
      known == SelectSeq(items, Known)
  IN  [ halted |-> FALSE,
        items |-> [ i \in 1..Len(known) |->
                      update(known[i], table[known[i].filingId]) ] ]

\* item.update(self.filings[item['filingId']]) for every item; a filingId
\* that is no key of the table halts the run
join_filings(items, table) ==
  IF \A i \in 1..Len(items) : items[i].filingId \in DOMAIN table
  THEN [ halted |-> FALSE,
         items |-> [ i \in 1..Len(items) |->
                       update(items[i], table[items[i].filingId]) ] ]
  ELSE [ halted |-> TRUE, items |-> << >> ]

\* variant: scheduleB is exploded into one row per field of the loan
ItemRows_exploding_loans(schedule_type, item) ==
  LET flat == IF schedule_type \in {"scheduleA2", "scheduleB", "scheduleC"}
              THEN [ item EXCEPT
                       !.incomeSources = flattenIncomeSources(@) ]
              ELSE item
  IN  IF schedule_type = "scheduleA2"
      THEN LET exploded == explodeScheduleA2(flat)
           IN  [ i \in 1..Len(exploded) |->
                   deal_with_dates("scheduleA2", exploded[i]) ]
      ELSE IF schedule_type = "scheduleB"
      THEN [ i \in 1..Cardinality(DOMAIN item.loan) |->
               deal_with_dates("scheduleB", explodeScheduleB(flat)) ]
      ELSE IF schedule_type = "scheduleD"
      THEN LET exploded == explodeScheduleD(flat)
           IN  [ i \in 1..Len(exploded) |->
                   deal_with_dates("scheduleD", exploded[i]) ]
      ELSE << deal_with_dates(schedule_type,
                              pickKeys(flat, schedule_type)) >>

\* the rows one joined item gives
ItemRows(schedule_type, item) ==
  LET flat == IF schedule_type \in {"scheduleA2", "scheduleB", "scheduleC"}
              THEN [ item EXCEPT
                       !.incomeSources = flattenIncomeSources(@) ]
              ELSE item
  IN  IF schedule_type = "scheduleA2"
      THEN LET exploded == explodeScheduleA2(flat)
           IN  [ i \in 1..Len(exploded) |->
                   deal_with_dates("scheduleA2", exploded[i]) ]
      ELSE IF schedule_type = "scheduleB"
      THEN << deal_with_dates("scheduleB", explodeScheduleB(flat)) >>
      ELSE IF schedule_type = "scheduleD"
      THEN LET exploded == explodeScheduleD(flat)
           IN  [ i \in 1..Len(exploded) |->
                   deal_with_dates("scheduleD", exploded[i]) ]
      ELSE << deal_with_dates(schedule_type,
                              pickKeys(flat, schedule_type)) >>

\* the rows of items[lo..hi] of one category of a page, in order
RECURSIVE ScheduleRows(_, _, _, _)
ScheduleRows(schedule_type, items, lo, hi) ==
  IF lo > hi THEN << >>
  ELSE IF lo = hi THEN ItemRows(schedule_type, items[lo])
  ELSE LET mid == (lo + hi) \div 2
       IN  ScheduleRows(schedule_type, items, lo, mid)
             \o ScheduleRows(schedule_type, items, mid + 1, hi)

\* transformScheduleResponse from category schedules[i] on, on counters sc
\* and row stores d; halted when a join failed
RECURSIVE transformScheduleResponse(_, _, _, _, _)
transformScheduleResponse(i, response_json, page_num, sc, d) ==
  IF i > Len(schedules)
  THEN [ sanity_check |-> sc, data |-> d, halted |-> FALSE ]
  ELSE
    LET schedule_type == schedules[i]
        sc1 == IF captures_total(page_num)
               THEN [ sc EXCEPT !["items"].total =
                                   response_json.totalMatchingCount ]
               ELSE sc
        received_items == Len(response_json[schedule_type])
        sc2 == [ sc1 EXCEPT ![schedule_type].received = @ + received_items,
                            !["items"].received = @ + received_items ]
        joined == join_filings(response_json[schedule_type], filings)
        rows == ScheduleRows(schedule_type, joined.items, 1, Len(joined.items))
        sc3 == [ sc2 EXCEPT ![schedule_type].send = @ + Len(rows),
                            !["items"].send = @ + Len(rows) ]
    IN  IF received_items = 0
        THEN transformScheduleResponse(i + 1, response_json, page_num, sc1, d)
        ELSE IF joined.halted
        THEN [ sanity_check |-> sc2, data |-> d, halted |-> TRUE ]
        ELSE transformScheduleResponse(
               i + 1, response_json, page_num, sc3,
               saveResponseTemp(d, schedule_type, rows))

\* variant: the update goes the other way, the filer record of an item's
\* filing takes the fields of the item
filings_after_join_reversed(response_json, table) ==
  [ id \in DOMAIN table |->
      LET joined ==
            { c \in ScheduleTypes :
                \E i \in 1..Len(response_json[c]) :
                  response_json[c][i].filingId = id }
      IN  IF joined = {} THEN table[id]
          ELSE LET c == CHOOSE t \in joined : TRUE
                   i == CHOOSE j \in 1..Len(response_json[c]) :
                          response_json[c][j].filingId = id
               IN  update(table[id], response_json[c][i]) ]

\* self.filings after the joins of a page: item.update(self.filings[...])
\* changes the item and only reads the table
filings_after_join(response_json, table) == table

extractConfirmSchedule ==
  sanity_check["items"].total = sanity_check["items"].received

\* the condition of the schedule page loop
schedule_loop_condition == current_page < total_pages

\* extractData of schedule page page_num and, when the response is
\* accepted, its transformation; sync() goes on at next_pc with
\* current_page = next_page
SchedulePage(page_num, next_page, next_pc) ==
  \E status \in StatusCodes :
    IF extract_accepted(status)
    THEN \E response_json \in ScheduleResponses(page_num) :
           LET result == transformScheduleResponse(
                           2, response_json, page_num, sanity_check, data)
           IN  /\ status_code' = status
               /\ events' = events \o
                    << RequestEvent("schedule", page_num),
                       TransformEvent("schedule", page_num,
                         [ c \in ScheduleTypes |->
                             FilingIds(response_json[c]) ]) >>
               /\ sanity_check' = result.sanity_check
               /\ data' = result.data
               /\ filings' = filings_after_join(response_json, filings)
               /\ IF result.halted
                  THEN /\ stop_all_execution("Missing a filing record")
                       /\ UNCHANGED << current_page, total_pages >>
                  ELSE /\ current_page' = next_page
                       /\ total_pages' = IF page_num = 1
                                         THEN response_json.totalMatchingPages
                                         ELSE total_pages
                       /\ pc' = next_pc
                       /\ UNCHANGED << error_log, raised, session_open,
                                       soda_open >>
    ELSE /\ status_code' = status
         /\ events' = Append(events, RequestEvent("schedule", page_num))
         /\ stop_all_execution("Error requesting Url")
         /\ UNCHANGED << current_page, total_pages, sanity_check, data,
                         filings >>

\* sync(): the first schedule page
ExtractFirstSchedule ==
  /\ pc = "schedule_first"
  /\ SchedulePage(1, page_after(1), "schedule_loop")
  /\ UNCHANGED << was_reset, schedule_idx, chunk_idx >>
  /\ UNCHANGED << call, outcome >>

\* sync(): one iteration of the schedule page loop
ExtractNextSchedule ==
  /\ pc = "schedule_loop"
  /\ schedule_loop_condition
  /\ SchedulePage(current_page, page_after(current_page), "schedule_loop")
  /\ UNCHANGED << was_reset, schedule_idx, chunk_idx >>
  /\ UNCHANGED << call, outcome >>

\* sync(): the request of page current_page that follows the loop
ExtractLastSchedule ==
  /\ pc = "schedule_loop"
  /\ ~schedule_loop_condition
  /\ SchedulePage(current_page, current_page, "schedule_extracted")
  /\ UNCHANGED << was_reset, schedule_idx, chunk_idx >>
  /\ UNCHANGED << call, outcome >>

\* sync(): the schedule extraction check; when it passes the session block
\* ends and the schedule load loop starts after 'cover'
ConfirmScheduleExtract ==
  /\ pc = "schedule_extracted"
  /\ IF extractConfirmSchedule
     THEN /\ pc' = "schedule_load"
          /\ session_open' = FALSE
          /\ schedule_idx' = 2
          /\ chunk_idx' = 1
          /\ UNCHANGED << error_log, raised, soda_open >>
     ELSE /\ stop_all_execution(
               "Did not receive expected number of schedule items")
          /\ UNCHANGED << schedule_idx, chunk_idx >>
  /\ UNCHANGED << status_code, current_page, total_pages, sanity_check,
                  data, was_reset, filings, events >>
  /\ UNCHANGED << call, outcome >>

\* sync(): loadData of a schedule category has sent its chunks; the result
\* of loadConfirm(schedule_type) is not used, the loop goes on
NextSchedule ==
  /\ pc = "schedule_load"
  /\ schedule_idx <= Len(schedules)
  /\ chunk_idx > Len(chunk_starts(data[schedules[schedule_idx]]))
  /\ loadConfirm(schedules[schedule_idx]) \in BOOLEAN
  /\ schedule_idx' = schedule_idx + 1
  /\ chunk_idx' = 1
  /\ UNCHANGED << pc, status_code, current_page, total_pages,
                  sanity_check, data, was_reset, filings, events, error_log,
                  raised, session_open, soda_open >>
  /\ UNCHANGED << call, outcome >>

\* sync(): after the schedule load loop, loadConfirm('items'); the catalog
\* client block ends
ConfirmScheduleLoad ==
  /\ pc = "schedule_load"
  /\ schedule_idx > Len(schedules)
  /\ IF loadConfirm("items")
     THEN /\ pc' = "done"
          /\ soda_open' = FALSE
          /\ UNCHANGED << error_log, raised, session_open >>
     ELSE stop_all_execution(
            "Did not load expected number of schedule items")
  /\ UNCHANGED << status_code, current_page, total_pages, sanity_check,
                  data, was_reset, filings, schedule_idx, chunk_idx, events >>
  /\ UNCHANGED << call, outcome >>

Next ==
  \/ Authenticate
  \/ ExtractFirstCover
  \/ ExtractNextCover
  \/ ConfirmCoverExtract
  \/ LoadChunk
  \/ ConfirmCoverLoad
  \/ ExtractFirstSchedule
  \/ ExtractNextSchedule
  \/ ExtractLastSchedule
  \/ ConfirmScheduleExtract
  \/ NextSchedule
  \/ ConfirmScheduleLoad

Spec == Init /\ [][Next]_vars

\* sync() runs on while it has a step to take: every external call returns
FairSpec == Spec /\ WF_vars(Next)

(* ------------------------------------------------------------------ *)
(* Properties                                                           *)
(* ------------------------------------------------------------------ *)

IsCoverRequest(e) == e.op = "request" /\ e.cat = "cover"

IsScheduleRequest(e) == e.op = "request" /\ e.cat = "schedule"

IsWrite(e) == e.op \in {"replace", "upsert"}

IsCoverWrite(e) == IsWrite(e) /\ e.cat = "cover"

IsScheduleWrite(e) == IsWrite(e) /\ e.cat # "cover"

\* the page indexes requested from the cover and the schedule endpoint
CoverPagesRequested ==
  LET requests == SelectSeq(events, IsCoverRequest)
  IN  [ i \in 1..Len(requests) |-> requests[i].page ]

SchedulePagesRequested ==
  LET requests == SelectSeq(events, IsScheduleRequest)
  IN  [ i \in 1..Len(requests) |-> requests[i].page ]

\* the catalog calls made for a category
WritesOf(schedule_type) ==
  LET OfType(e) == IsWrite(e) /\ e.cat = schedule_type
  IN  SelectSeq(events, OfType)

Halted(msg) ==
  /\ pc = "halted"
  /\ error_log = << msg >>

\* C1: when all schedule pages were extracted without a failing request,
\* the schedule endpoint was requested with the page indexes 1, 2, ..., P,
\* each once and in this order, P the totalMatchingPages of page 1
C1_SchedulePagesOneToP ==
  pc = "schedule_extracted" =>
    SchedulePagesRequested = [ i \in 1..total_pages |-> i ]

\* C2: the cover endpoint is requested with the page indexes 1, 2, ... in
\* order, none beyond the totalMatchingPages P of page 1 and all of 1..P
\* when the cover extraction ends, and each page is transformed before the
\* next one is requested
C2_CoverPagesOneToP ==
  /\ CoverPagesRequested = [ i \in 1..Len(CoverPagesRequested) |-> i ]
  /\ pc \in {"cover_loop", "cover_load"} =>
       Len(CoverPagesRequested) <= total_pages
  /\ pc = "cover_load" => Len(CoverPagesRequested) = total_pages
  /\ \A i \in 1..Len(events) :
       ( /\ IsCoverRequest(events[i])
         /\ \E j \in (i + 1)..Len(events) : events[j].op = "request" )
       => /\ events[i + 1].op = "transform"
          /\ events[i + 1].cat = "cover"
          /\ events[i + 1].page = events[i].page

C2_Witness ==
  /\ pc = "cover_load"
  /\ total_pages >= 2
  /\ CoverPagesRequested = [ i \in 1..total_pages |-> i ]

\* C3: sync() ends in success only when send = created holds for each of
\* the eight categories
C3_EveryCategoryReconciled ==
  pc = "done" =>
    \A schedule_type \in Categories :
      sanity_check[schedule_type].send = sanity_check[schedule_type].created

\* C4: a catalog call for the cover dataset is made only when
\* cover.received = cover.total, one for a schedule dataset only when
\* items.received = items.total; with a mismatch the run is halted at the
\* check and no call of that phase is made
C4_ExtractionGatesLoad ==
  /\ (\E i \in 1..Len(events) : IsCoverWrite(events[i])) =>
       sanity_check["cover"].received = sanity_check["cover"].total
  /\ (\E i \in 1..Len(events) : IsScheduleWrite(events[i])) =>
       sanity_check["items"].received = sanity_check["items"].total
  /\ ( /\ pc \notin {"authenticate", "cover_first", "cover_loop"}
       /\ Len(CoverPagesRequested) > 0
       /\ status_code \in {200, 201}
       /\ sanity_check["cover"].received # sanity_check["cover"].total )
     => /\ Halted("Did not receive expected number of cover items")
        /\ \A i \in 1..Len(events) : ~IsWrite(events[i])
  /\ ( /\ pc \notin {"schedule_first", "schedule_loop", "schedule_extracted"}
       /\ Len(SchedulePagesRequested) > 0
       /\ status_code \in {200, 201}
       /\ ~(pc = "halted" /\ error_log = << "Missing a filing record" >>)
       /\ sanity_check["items"].received # sanity_check["items"].total )
     => /\ Halted("Did not receive expected number of schedule items")
        /\ \A i \in 1..Len(events) : ~IsScheduleWrite(events[i])

C4_Witness ==
  /\ \E i \in 1..Len(events) : IsCoverWrite(events[i])
  /\ \E i \in 1..Len(events) : IsScheduleWrite(events[i])
  /\ sanity_check["items"].total > 0

\* C5: of the catalog calls made for a category the first is a replace and
\* every later one an upsert
C5_ReplaceThenUpsert ==
  \A schedule_type \in Categories :
    \A i \in 1..Len(WritesOf(schedule_type)) :
      WritesOf(schedule_type)[i].op = IF i = 1 THEN "replace" ELSE "upsert"

C5_Witness ==
  \E schedule_type \in Categories : Len(WritesOf(schedule_type)) >= 2

\* the phase an event belongs to
EventPhase(e) ==
  IF e.op = "authenticate" THEN 1
  ELSE IF e.cat = "cover" THEN (IF IsWrite(e) THEN 3 ELSE 2)
  ELSE IF IsWrite(e) THEN 5 ELSE 4

\* the position of sync() in its phases
PhaseOf(position) ==
  CASE position = "authenticate" -> 1
    [] position = "cover_first" -> 2
    [] position = "cover_loop" -> 3
    [] position = "cover_load" -> 4
    [] position = "schedule_first" -> 5
    [] position = "schedule_loop" -> 6
    [] position = "schedule_extracted" -> 7
    [] position = "schedule_load" -> 8
    [] position = "done" -> 9
    [] position = "halted" -> 10

C6_Order ==
  /\ \A i \in 1..(Len(events) - 1) :
       EventPhase(events[i]) <= EventPhase(events[i + 1])
  /\ (\E i \in 1..Len(events) : events[i].cat = "schedule") =>
       /\ sanity_check["cover"].received = sanity_check["cover"].total
       /\ sanity_check["cover"].send = sanity_check["cover"].created

C6_Step ==
  /\ PhaseOf(pc) <= PhaseOf(pc')
  /\ pc \in {"halted", "done"} => events' = events /\ pc' = pc

\* C6: the phases occur in the order authenticate, cover extraction, cover
\* load, schedule extraction, schedule load; no schedule page is requested
\* before the cover load check passed, sync() never goes back to an earlier
\* phase, and a halted run makes no further request or catalog call
C6_PhasesInOrder == [](C6_Order) /\ [][C6_Step]_vars

C6_Witness ==
  /\ pc = "done"
  /\ \E i \in 1..Len(events) : IsCoverWrite(events[i])
  /\ \E i \in 1..Len(events) : IsScheduleWrite(events[i])

ReportsErrors(e) == IsWrite(e) /\ "Errors" \in DOMAIN e.res /\ e.res["Errors"] > 0

\* the rows the catalog reported created in the calls i.. of events that
\* were made for schedule_type and answered without errors
RECURSIVE CreatedFrom(_, _)
CreatedFrom(schedule_type, i) ==
  IF i > Len(events) THEN 0
  ELSE (IF /\ IsWrite(events[i])
           /\ events[i].cat = schedule_type
           /\ "Errors" \in DOMAIN events[i].res
           /\ events[i].res["Errors"] = 0
        THEN events[i].res["Rows Created"] ELSE 0)
       + CreatedFrom(schedule_type, i + 1)

\* C7: when the catalog reports Errors > 0 for a chunk, the run is halted
\* by stop_all_execution, which logged the error and exits with status 1;
\* no further chunk is sent and the chunk's 'Rows Created' is in no created
\* counter
C7_LoadErrorHalts ==
  /\ \A i \in 1..Len(events) :
       ReportsErrors(events[i]) =>
         /\ i = Len(events)
         /\ pc = "halted"
         /\ raised = "SystemExit"
         /\ Len(error_log) = 1
  /\ \A schedule_type \in Categories :
       sanity_check[schedule_type].created = CreatedFrom(schedule_type, 1)

\* the categories of a transformed page with an item whose filingId is no
\* key of the filer table
MissingFiling(e) ==
  { c \in DOMAIN e.ids :
      \E k \in 1..Len(e.ids[c]) : e.ids[c][k] \notin DOMAIN filings }

IsJoinError(e) ==
  e.op = "transform" /\ e.cat = "schedule" /\ MissingFiling(e) # {}

C8_Halted ==
  \A i \in 1..Len(events) :
    IsJoinError(events[i]) =>
      /\ i = Len(events)
      /\ Halted("Missing a filing record")
      /\ \A j \in 1..Len(events) : ~IsScheduleWrite(events[j])

C8_Step ==
  (Len(events') > Len(events) /\ IsJoinError(events'[Len(events')])) =>
    LET first == CHOOSE i \in 2..Len(schedules) :
                   /\ schedules[i] \in MissingFiling(events'[Len(events')])
                   /\ \A j \in 2..(i - 1) :
                        schedules[j] \notin
                          MissingFiling(events'[Len(events')])
    IN  /\ data'[schedules[first]] = data[schedules[first]]
        /\ sanity_check'[schedules[first]].send =
             sanity_check[schedules[first]].send

\* C8: a schedule item whose filingId is no key of the filer table halts
\* the run in transformScheduleResponse; no row of its category from that
\* page is stored and no schedule chunk is ever sent
C8_JoinErrorHalts == [](C8_Halted) /\ [][C8_Step]_vars

C8_Witness ==
  /\ Halted("Missing a filing record")
  /\ IsJoinError(events[Len(events)])

C9_Gate ==
  /\ pc = "cover_first" => status_code \in {200, 201, 202}
  /\ Len(events) >= 1 => events[1].op = "authenticate"
  /\ (pc \notin {"authenticate", "cover_first"} /\ Len(events) > 1) =>
       events[2] = RequestEvent("cover", 1)
  /\ (pc = "halted" /\ Len(events) = 1) =>
       status_code \notin {200, 201, 202}

C9_Step ==
  /\ pc = "authenticate" =>
       IF status_code' \in {200, 201, 202}
       THEN pc' = "cover_first"
       ELSE pc' = "halted" /\ events' = << AuthEvent >>
  /\ pc = "halted" => UNCHANGED events

\* C9: the first cover page is requested if and only if the status of the
\* authentication response is 200, 201 or 202; with any other status the
\* run halts without a page request or catalog call
C9_AuthenticationGate == [](C9_Gate) /\ [][C9_Step]_vars

C9_Witness ==
  /\ pc = "cover_first"
  /\ status_code = 202

C10_Halted ==
  (Len(events) > 1 /\ status_code \notin 200..299) =>
    /\ pc = "halted"
    /\ events[Len(events)].op = "request"

C10_Step ==
  (Len(events') > Len(events) /\ Len(events') > 1
     /\ status_code' \notin 200..299) =>
    /\ events' = Append(events, events'[Len(events')])
    /\ UNCHANGED << sanity_check, data, filings, was_reset >>

\* C10: a page response whose status is not 2xx halts the run: the page is
\* not transformed, no counter, row store or filer table changes and no
\* later page is requested
C10_ExtractionErrorHalts == [](C10_Halted) /\ [][C10_Step]_vars

C10_Witness ==
  /\ pc = "halted"
  /\ status_code = 500
  /\ Len(SchedulePagesRequested) >= 2

\* C11: when sync() has ended, in success or by any halt, the session of
\* the source API and the catalog client are both closed
C11_SessionsReleased ==
  pc \in {"halted", "done"} => ~session_open /\ ~soda_open

C11_Witness ==
  /\ Halted("Error requesting Url")
  /\ Len(SchedulePagesRequested) >= 1
  /\ Len(WritesOf("cover")) >= 1
  /\ ~session_open
  /\ ~soda_open

(* ------------------------------------------------------------------ *)
(* Methods called on their own                                          *)
(* ------------------------------------------------------------------ *)

\* most gifts of a scheduleD item
MaxGifts == 3

\* most real properties of a scheduleA2 item
MaxProperties == 2

\* most offices of a filing
MaxOffices == 2

\* most digits of the month and of the day of a user-entered date
MaxDigits == 3

\* the filer table after a cover page with the filings 1 and 2
TwoFilings ==
  Registered(<< CoverRow(Filing(1)), CoverRow(Filing(2)) >>, 1, 2)

\* the lists of at most n elements of the set S
RECURSIVE Lists(_, _)
Lists(S, n) ==
  IF n = 0 THEN { << >> }
  ELSE LET shorter == Lists(S, n - 1)
       IN  shorter \cup { Append(l, e) : l \in shorter, e \in S }

\* a call of a method, and how it ended
Call(fn, arg) == [ fn |-> fn, arg |-> arg ]

Returned(value) == [ raised |-> "none", value |-> value ]

Raised(exception) == [ raised |-> exception, value |-> << >> ]

GiftLists == Lists({Gift(1), Gift(2)}, MaxGifts)

\* a scheduleD item as explodeScheduleD receives it: joined with its filing
JoinedD(id, gifts) == update(itemD(id, gifts), TwoFilings[id])

\* the scheduleD lists of a page
PagesD ==
  { << >> } \cup { << itemD(1, g) >> : g \in GiftLists }
    \cup { << itemD(1, g), itemD(2, h) >> : g \in GiftLists, h \in GiftLists }

PropertyLists ==
  Lists({RealProperty(UserDate), RealProperty(None)}, MaxProperties)

\* a scheduleA2 item as explodeScheduleA2 receives it: joined with its
\* filing, the income sources flattened
JoinedA2(id, realProperties) ==
  [ update(itemA2(id, realProperties), TwoFilings[id]) EXCEPT
      !.incomeSources = flattenIncomeSources(@) ]

Mayor ==
  [ filerPosition |-> <<"M", "a", "y", "o", "r">>,
    filerDivisionBoardDistrict |-> <<"1">> ]

Clerk ==
  [ filerPosition |-> <<"C", "l", "e", "r", "k">>,
    filerDivisionBoardDistrict |-> <<"2">> ]

OfficeLists == Lists({Mayor, Clerk}, MaxOffices)

\* the digit d, n times
Repeat(d, n) == [ i \in 1..n |-> d ]

\* values of date fields: None, the empty string, month/day/year with
\* groups of several lengths and with or without text after the year,
\* Netfile timestamps, and strings of 32, 33 and 34 characters of which
\* one of 33 has the form month/day/year
Dates ==
  { None, << >>, IsoDate, NetfileTimestamp, Tail(NetfileTimestamp),
    Append(NetfileTimestamp, "0"),
    Repeat("1", 26) \o <<"/", "2", "/", "2", "0", "2", "1">> }
    \cup { month \o <<"/">> \o day \o <<"/">> \o year \o end :
             month \in { Repeat("3", n) : n \in 1..MaxDigits },
             day \in { Repeat("4", n) : n \in 1..MaxDigits },
             year \in { <<"2", "0", "2", "1">>, <<"2", "1">>,
                        <<"2", "0", "2", "1", "5">> },
             end \in { << >>, <<"\n">>, <<"\n", "\n">>, <<" ">> } }

\* Python None where the code expects a dict
NoneDict == [ type |-> "NoneType" ]

FlatCredentials(login, password) ==
  [ login |-> login, password |-> password ]

\* the credentials __init__ reads: credentials['netfile'] with login and
\* password, credentials['socrata'] with keyId, keySecret and appToken
NestedCredentials(login, password) ==
  [ netfile |-> [ login |-> login, password |-> password ],
    socrata |-> [ keyId |-> "id", keySecret |-> "key", appToken |-> "app" ] ]

\* the credentials a caller may pass: a flat pair, the nested form, the
\* nested form without 'socrata' or with None for 'netfile'
Credentials ==
  LET pairs == {"foo", "ann"} \X {"bar", "pw"}
  IN  { FlatCredentials(p[1], p[2]) : p \in pairs }
        \cup { NestedCredentials(p[1], p[2]) : p \in pairs }
        \cup { [ netfile |-> NestedCredentials(p[1], p[2]).netfile ] :
                 p \in pairs }
        \cup { [ NestedCredentials(p[1], p[2]) EXCEPT !.netfile = NoneDict ] :
                 p \in pairs }

\* Form700_Blocking(credentials=..., schema_defs=...): the attributes
\* __init__ sets from the credentials, or the exception it raises
Form700_Blocking(credentials, schema_defs) ==
  IF "netfile" \notin DOMAIN credentials THEN Raised("KeyError")
  ELSE IF "socrata" \notin DOMAIN credentials THEN Raised("KeyError")
  ELSE IF schema_defs = NoneDict THEN Raised("TypeError")
  ELSE
    LET soda ==
          [ soda_creds |->
              [ username |-> credentials.socrata.keyId,
                password |-> credentials.socrata.keySecret ],
            appToken |-> credentials.socrata.appToken ]
    IN  Returned(
          IF credentials.netfile = NoneDict THEN soda
          ELSE update(soda,
                 [ netfile_creds |->
                     [ UserName |-> credentials.netfile.login,
                       Password |-> credentials.netfile.password ] ]))

explodeScheduleD_calls ==
  { Call("explodeScheduleD", JoinedD(id, g)) : id \in {1, 2}, g \in GiftLists }

explodeScheduleA2_calls ==
  { Call("explodeScheduleA2", JoinedA2(id, l)) :
      id \in {1, 2}, l \in PropertyLists }

flattenOffices_calls == { Call("flattenOffices", l) : l \in OfficeLists }

castDate_calls == { Call("castDate", date) : date \in Dates }

Form700_Blocking_calls ==
  { Call("Form700_Blocking",
         [ credentials |-> c, schema_defs |-> s ]) :
      c \in Credentials, s \in {NoneDict, schemas} }

\* a schedule page of index page_num with the scheduleD items `items`, met
\* with `send` scheduleD rows already produced
transformScheduleResponse_calls ==
  { Call("transformScheduleResponse",
         [ response_json |->
             update([ NoItems EXCEPT !["scheduleD"] = items ],
                    [ totalMatchingCount |-> Len(items),
                      totalMatchingPages |-> 2 ]),
           page_num |-> page_num,
           send |-> send ]) :
      items \in PagesD, page_num \in {1, 2}, send \in {0, 2} }

Calls ==
  explodeScheduleD_calls \cup transformScheduleResponse_calls
    \cup explodeScheduleA2_calls \cup flattenOffices_calls
    \cup castDate_calls \cup Form700_Blocking_calls

\* the client before the call: constructed and, for a schedule page, with
\* the filer table of the cover phase and the counters of earlier pages
MethodInit ==
  /\ call \in Calls
  /\ outcome = NoOutcome
  /\ pc = "call"
  /\ status_code = 0
  /\ current_page = 0
  /\ total_pages = 0
  /\ sanity_check =
       LET fresh ==
             [ k \in Categories \cup {"items"} |->
                 IF k \in {"cover", "items"}
                 THEN [ total |-> 0, received |-> 0, send |-> 0,
                        created |-> 0 ]
                 ELSE [ received |-> 0, send |-> 0, created |-> 0 ] ]
       IN  IF call.fn = "transformScheduleResponse"
           THEN [ fresh EXCEPT !["scheduleD"].send = call.arg.send,
                               !["scheduleD"].received = call.arg.send,
                               !["items"].send = call.arg.send,
                               !["items"].received = call.arg.send ]
           ELSE fresh
  /\ data = [ schedule \in Categories |-> << >> ]
  /\ was_reset = [ schedule \in Categories |-> FALSE ]
  /\ filings = IF call.fn = "transformScheduleResponse" THEN TwoFilings
               ELSE << >>
  /\ schedule_idx = 0
  /\ chunk_idx = 0
  /\ events = << >>
  /\ error_log = << >>
  /\ raised = "none"
  /\ session_open = FALSE
  /\ soda_open = FALSE

ExplodeScheduleD ==
  /\ pc = "call"
  /\ call.fn = "explodeScheduleD"
  /\ outcome' = Returned(explodeScheduleD(call.arg))
  /\ pc' = "returned"
  /\ UNCHANGED << call, status_code, current_page, total_pages, sanity_check,
                  data, was_reset, filings, schedule_idx, chunk_idx, events,
                  error_log, raised, session_open, soda_open >>

ExplodeScheduleA2 ==
  /\ pc = "call"
  /\ call.fn = "explodeScheduleA2"
  /\ outcome' = Returned(explodeScheduleA2(call.arg))
  /\ pc' = "returned"
  /\ UNCHANGED << call, status_code, current_page, total_pages, sanity_check,
                  data, was_reset, filings, schedule_idx, chunk_idx, events,
                  error_log, raised, session_open, soda_open >>

FlattenOffices ==
  /\ pc = "call"
  /\ call.fn = "flattenOffices"
  /\ outcome' = Returned(flattenOffices(call.arg))
  /\ pc' = "returned"
  /\ UNCHANGED << call, status_code, current_page, total_pages, sanity_check,
                  data, was_reset, filings, schedule_idx, chunk_idx, events,
                  error_log, raised, session_open, soda_open >>

CastDate ==
  /\ pc = "call"
  /\ call.fn = "castDate"
  /\ outcome' = Returned(castDate(call.arg))
  /\ pc' = "returned"
  /\ UNCHANGED << call, status_code, current_page, total_pages, sanity_check,
                  data, was_reset, filings, schedule_idx, chunk_idx, events,
                  error_log, raised, session_open, soda_open >>

Construct ==
  /\ pc = "call"
  /\ call.fn = "Form700_Blocking"
  /\ outcome' = Form700_Blocking(call.arg.credentials, call.arg.schema_defs)
  /\ pc' = "returned"
  /\ UNCHANGED << call, status_code, current_page, total_pages, sanity_check,
                  data, was_reset, filings, schedule_idx, chunk_idx, events,
                  error_log, raised, session_open, soda_open >>

TransformScheduleResponse ==
  /\ pc = "call"
  /\ call.fn = "transformScheduleResponse"
  /\ LET transformed ==
           transformScheduleResponse(2, call.arg.response_json,
                                     call.arg.page_num, sanity_check, data)
     IN  /\ sanity_check' = transformed.sanity_check
         /\ data' = transformed.data
         /\ filings' = filings_after_join(call.arg.response_json, filings)
         /\ outcome' = IF transformed.halted THEN Raised("SystemExit")
                       ELSE Returned(None)
  /\ pc' = "returned"
  /\ UNCHANGED << call, status_code, current_page, total_pages, was_reset,
                  schedule_idx, chunk_idx, events, error_log, raised,
                  session_open, soda_open >>

MethodNext ==
  \/ ExplodeScheduleD
  \/ TransformScheduleResponse
  \/ ExplodeScheduleA2
  \/ FlattenOffices
  \/ CastDate
  \/ Construct

MethodSpec == MethodInit /\ [][MethodNext]_vars

\* the gifts of a list of scheduleD items
RECURSIVE TotalGifts(_)
TotalGifts(items) ==
  IF Len(items) = 0 THEN 0
  ELSE Len(items[1].gifts) + TotalGifts(Tail(items))

C12_Rows ==
  (pc = "returned" /\ call.fn = "explodeScheduleD") =>
    LET item == call.arg
        rows == outcome.value
    IN  /\ outcome.raised = "none"
        /\ Len(rows) = Len(item.gifts)
        /\ \A i \in 1..Len(rows) :
             /\ DOMAIN rows[i] = DOMAIN schemas["scheduleD"]
             /\ \A k \in DOMAIN rows[i] :
                  rows[i][k] =
                    IF k \in {"amount", "description", "giftDate"}
                    THEN item.gifts[i][k]
                    ELSE item[k]

C12_Step ==
  (pc = "call" /\ call.fn = "transformScheduleResponse") =>
    /\ sanity_check'["scheduleD"].send =
         sanity_check["scheduleD"].send
           + TotalGifts(call.arg.response_json["scheduleD"])
    /\ Len(data'["scheduleD"]) =
         Len(data["scheduleD"])
           + TotalGifts(call.arg.response_json["scheduleD"])

\* C12: explodeScheduleD gives a scheduleD item with N gifts exactly N rows,
\* none when N = 0; row i has amount, description and giftDate of gift i
\* and in every other column of the schema the value of the item; a page
\* raises the scheduleD send counter by the number of gifts of its items
C12_ScheduleDExplosion == [](C12_Rows) /\ [][C12_Step]_vars

C12_Witness ==
  /\ pc = "returned"
  /\ call.fn = "explodeScheduleD"
  /\ Len(call.arg.gifts) = MaxGifts
  /\ Len(outcome.value) = MaxGifts
  /\ outcome.value[1].amount # outcome.value[2].amount

\* C13: explodeScheduleA2 gives an item without real properties exactly one
\* row, with None in every realProperty_ column, and an item with N >= 1
\* properties exactly N rows, row i with the fields of property i under
\* the realProperty_ prefix; every row has the values of the item in the
\* other columns, and no row has the key realProperties
C13_ScheduleA2Explosion ==
  (pc = "returned" /\ call.fn = "explodeScheduleA2") =>
    LET item == call.arg
        rows == outcome.value
        N == Len(item.realProperties)
    IN  /\ outcome.raised = "none"
        /\ Len(rows) = IF N = 0 THEN 1 ELSE N
        /\ N = 0 => \A c \in realProperty_columns : rows[1][c] = None
        /\ N >= 1 =>
             \A i \in 1..N :
               \A k \in DOMAIN item.realProperties[i] :
                 rows[i][realProperty_[k]] = item.realProperties[i][k]
        /\ \A i \in 1..Len(rows) :
             /\ "realProperties" \notin DOMAIN rows[i]
             /\ realProperty_columns \subseteq DOMAIN rows[i]
             /\ \A k \in DOMAIN rows[i] \ realProperty_columns :
                  rows[i][k] = item[k]

C13_Witness ==
  /\ pc = "returned"
  /\ call.fn = "explodeScheduleA2"
  /\ call.arg.realProperties = << >>
  /\ Len(outcome.value) = 1
  /\ outcome.value[1]["realProperty_dateAcquired"] = None
  /\ outcome.value[1].businessName = "Acme"

\* C14: flattenOffices returns the offices, each rendered as its
\* filerPosition, one blank, a hyphen, one blank and its
\* filerDivisionBoardDistrict, joined by single blanks: the offices
\* (Mayor, 1) and (Clerk, 2) give 'Mayor - 1 Clerk - 2'
C14_OfficesFlattened ==
  (pc = "returned" /\ call.fn = "flattenOffices") =>
    outcome.value =
      join(<<" ">>,
           [ i \in 1..Len(call.arg) |->
               call.arg[i].filerPosition \o <<" ", "-", " ">>
                 \o call.arg[i].filerDivisionBoardDistrict ])

\* the positions of the two slashes of a string of the form M/D/YYYY: digits,
\* a slash, digits, a slash and four digits, and nothing else
UserDateSlashes(s) ==
  { p \in (1..Len(s)) \X (1..Len(s)) :
      /\ s[p[1]] = "/"
      /\ s[p[2]] = "/"
      /\ p[1] > 1
      /\ p[2] > p[1] + 1
      /\ Len(s) = p[2] + 4
      /\ AllDigits(SubSeq(s, 1, p[1] - 1))
      /\ AllDigits(SubSeq(s, p[1] + 1, p[2] - 1))
      /\ AllDigits(SubSeq(s, p[2] + 1, Len(s))) }

\* the date the four rules give, in their order
Normalized(date) ==
  IF date = None \/ date = << >> THEN None
  ELSE IF UserDateSlashes(date) # {} THEN
    LET p == CHOOSE q \in UserDateSlashes(date) : TRUE
    IN  SubSeq(date, p[2] + 1, Len(date)) \o <<"-">>
          \o zfill(SubSeq(date, 1, p[1] - 1), 2) \o <<"-">>
          \o zfill(SubSeq(date, p[1] + 1, p[2] - 1), 2)
  ELSE IF Len(date) # 33 THEN date
  ELSE SubSeq(date, 1, 19)

\* C15: castDate gives None for None and for the empty string; for a string
\* of the form M/D/YYYY it gives YYYY-MM-DD, month and day filled with
\* zeros to two digits; any other string whose length is not 33 is returned
\* unchanged, and of any other string of length 33 the first 19 characters
C15_DateNormalized ==
  (pc = "returned" /\ call.fn = "castDate") =>
    outcome.value = Normalized(call.arg)

IsTransform(e) == e.op = "transform"

\* the transformations of the pages of an endpoint, in order
TransformsOf(cat) ==
  LET OfEndpoint(e) == IsTransform(e) /\ e.cat = cat
  IN  SelectSeq(events, OfEndpoint)

\* the run so far had the inputs of the scenario: the only cover page has
\* the filings 1 and 2, page 1 of the schedule endpoint reports one page and
\* two items, has the scheduleA2 items of the filings 1 and 2 and nothing
\* else, no request of a page failed, and the catalog created every row it
\* was sent
C16_Inputs ==
  /\ status_code \in {200, 201}
  /\ CoverPagesRequested = << 1 >>
  /\ Len(TransformsOf("cover")) = 1
  /\ TransformsOf("cover")[1].ids["cover"] = << 1, 2 >>
  /\ sanity_check["cover"].total = 2
  /\ Len(TransformsOf("schedule")) >= 1
  /\ TransformsOf("schedule")[1].ids =
       [ c \in ScheduleTypes |->
           IF c = "scheduleA2" THEN << 1, 2 >> ELSE << >> ]
  /\ total_pages = 1
  /\ sanity_check["items"].total = 2
  /\ \A i \in 1..Len(events) :
       IsWrite(events[i]) =>
         events[i].res = CatalogResult(0, events[i].rows)

\* C16: with one cover page of two filings and one schedule page of two
\* scheduleA2 items, without and with two real properties, and a catalog
\* that creates every row, sync() ends with 2 cover rows and 3 scheduleA2
\* rows stored, every count reconciled, one request per page of the source
\* and two catalog calls
C16_EndToEnd ==
  (C16_Inputs /\ pc \in {"done", "halted"}) =>
    /\ pc = "done"
    /\ Len(data["cover"]) = 2
    /\ Len(data["scheduleA2"]) = 3
    /\ sanity_check["cover"].received = 2
    /\ sanity_check["cover"].send = sanity_check["cover"].created
    /\ sanity_check["items"].received = 2
    /\ sanity_check["items"].send = sanity_check["items"].created
    /\ SchedulePagesRequested = << 1 >>
    /\ Len(SelectSeq(events, IsWrite)) = 2

\* C17: the construction of the client with the credentials
\* {login, password} succeeds and stores {UserName: login,
\* Password: password}, the form body authenticate posts
C17_CredentialsStored ==
  ( /\ pc = "returned"
    /\ call.fn = "Form700_Blocking"
    /\ DOMAIN call.arg.credentials = {"login", "password"} )
  => /\ outcome.raised = "none"
     /\ "netfile_creds" \in DOMAIN outcome.value
     /\ outcome.value.netfile_creds =
          [ UserName |-> call.arg.credentials.login,
            Password |-> call.arg.credentials.password ]

\* the categories that give one row per item
OneToOne ==
  {"cover", "comments", "scheduleA1", "scheduleB", "scheduleC", "scheduleE"}

\* the run was halted by an item without filing record, in the middle of
\* the transformation of a page
JoinHalted == pc = "halted" /\ error_log = << "Missing a filing record" >>

C18_SendNotBelowReceived ==
  ~JoinHalted =>
    /\ \A c \in OneToOne : sanity_check[c].send = sanity_check[c].received
    /\ \A c \in {"scheduleA2", "scheduleD"} :
         sanity_check[c].send >= sanity_check[c].received

\* C18: after every page transformation send = received for cover,
\* comments, scheduleA1, scheduleB, scheduleC and scheduleE and
\* send >= received for scheduleA2; the scheduleD send counter is the
\* number of scheduleD rows stored, one per gift, and may be below received
C18_SendAndReceived ==
  ~JoinHalted =>
    /\ \A c \in OneToOne : sanity_check[c].send = sanity_check[c].received
    /\ sanity_check["scheduleA2"].send >= sanity_check["scheduleA2"].received
    /\ sanity_check["scheduleD"].send = Len(data["scheduleD"])
    /\ \A i \in 1..Len(data["scheduleD"]) :
         data["scheduleD"][i].amount \in {Gift(1).amount, Gift(2).amount}

C18_Witness ==
  /\ pc = "schedule_extracted"
  /\ sanity_check["scheduleD"].send > 0
  /\ sanity_check["scheduleD"].send < sanity_check["scheduleD"].received
  /\ sanity_check["scheduleA2"].send > sanity_check["scheduleA2"].received
  /\ sanity_check["cover"].received > 0

\* the sum of a counter over the categories schedules[i..]
RECURSIVE CounterSum(_, _)
CounterSum(counter, i) ==
  IF i > Len(schedules) THEN 0
  ELSE sanity_check[schedules[i]][counter] + CounterSum(counter, i + 1)

\* C19: in every state the received, send and created counters of 'items'
\* are the sums of the counter over the seven categories of the schedule
\* endpoint; the counters of cover are no part of them
C19_ItemsAggregate ==
  \A counter \in {"received", "send", "created"} :
    sanity_check["items"][counter] = CounterSum(counter, 2)

C19_Witness ==
  /\ pc = "done"
  /\ sanity_check["cover"].created > 0
  /\ sanity_check["scheduleB"].created > 0
  /\ sanity_check["scheduleC"].created > 0
  /\ sanity_check["items"].created =
       sanity_check["scheduleB"].created + sanity_check["scheduleC"].created

C20_Step ==
  /\ PhaseOf(pc) >= PhaseOf("schedule_first") => filings' = filings
  /\ filings' # filings =>
       /\ pc \in {"cover_first", "cover_loop"}
       /\ Len(events') = Len(events) + 2
       /\ IsTransform(events'[Len(events')])
       /\ events'[Len(events')].cat = "cover"

\* C20: the filer table is written by the transformations of cover pages
\* only: from the request of the first schedule page to the end of the run
\* no step adds, removes or changes an entry
C20_FilerTableReadOnly == [][C20_Step]_vars

C20_Witness ==
  /\ pc = "done"
  /\ DOMAIN filings = {1, 2}
  /\ Len(data["scheduleA2"]) = 3
  /\ \A i \in 1..3 :
       data["scheduleA2"][i].filerName =
         filings[data["scheduleA2"][i].filingId].filerName

\* the step transforms page `page` of endpoint `cat`
Transforms(cat, page) ==
  /\ Len(events') > Len(events)
  /\ IsTransform(events'[Len(events')])
  /\ events'[Len(events')].cat = cat
  /\ events'[Len(events')].page = page

C21_Step ==
  /\ \A page \in 2..(MaxPages + MaxCoverPages) :
       (Transforms("cover", page) \/ Transforms("schedule", page)) =>
         /\ sanity_check'["cover"].total = sanity_check["cover"].total
         /\ sanity_check'["items"].total = sanity_check["items"].total
         /\ total_pages' = total_pages
  /\ sanity_check'["cover"].total # sanity_check["cover"].total =>
       Transforms("cover", 1)
  /\ sanity_check'["items"].total # sanity_check["items"].total =>
       Transforms("schedule", 1)
  /\ total_pages' # total_pages =>
       Transforms("cover", 1) \/ Transforms("schedule", 1)

\* C21: the total of cover and the total of 'items' are set by the
\* transformation of page 1 of their endpoint only: the transformation of a
\* page of index > 1 leaves both totals as they are, and total_pages, the
\* bound of the page loops, is set after page 1 of an endpoint only
C21_TotalsFromPageOne == [][C21_Step]_vars

C21_Witness ==
  /\ pc = "schedule_extracted"
  /\ Len(TransformsOf("cover")) >= 2
  /\ Len(TransformsOf("schedule")) >= 3
  /\ sanity_check["cover"].total = 2
  /\ sanity_check["items"].total > PageSize

\* loadData of the category schedules[i] has sent all its chunks
LoadFinished(i) ==
  \/ pc = "done"
  \/ Halted("Did not load expected number of schedule items")
  \/ IF i = 1
     THEN \/ pc \in {"schedule_first", "schedule_loop", "schedule_extracted",
                     "schedule_load"}
          \/ Halted("Did not load expected number of cover items")
     ELSE pc = "schedule_load" /\ schedule_idx > i

\* C22: the catalog calls made for a category with n rows in its store are
\* sent from the offsets 0, 1000, 2000, ..., each with the rows up to the
\* next offset or the end of the store; when loadData has ended without
\* error there are ceil(n / 1000) of them, all but the last of 1000 rows,
\* that cover the store; with n = 0 there is no call and was_reset stays
\* False
C22_Chunking ==
  \A i \in 1..Len(schedules) :
    LET schedule_type == schedules[i]
        n == Len(data[schedule_type])
        writes == WritesOf(schedule_type)
    IN  /\ \A k \in 1..Len(writes) :
             /\ writes[k].x = 1000 * (k - 1)
             /\ writes[k].rows =
                  IF n - writes[k].x > 1000 THEN 1000 ELSE n - writes[k].x
             /\ writes[k].rows > 0
        /\ LoadFinished(i) =>
             /\ Len(writes) = (n + 999) \div 1000
             /\ \A k \in 1..(Len(writes) - 1) : writes[k].rows = 1000
             /\ Len(writes) > 0 =>
                  writes[Len(writes)].x + writes[Len(writes)].rows = n
        /\ n = 0 => writes = << >> /\ was_reset[schedule_type] = FALSE
        /\ was_reset[schedule_type] =
             (\E k \in 1..Len(writes) : writes[k].res # << >>)

C22_Witness ==
  /\ pc = "done"
  /\ Len(data["scheduleE"]) = 1001
  /\ Len(WritesOf("scheduleE")) = 2
  /\ WritesOf("scheduleE")[2].rows = 1
  /\ Len(data["scheduleD"]) = 0
  /\ WritesOf("scheduleD") = << >>

\* C23: in every state the row store of each of the eight categories has
\* as many rows as the send counter of the category says
C23_StoreMatchesSend ==
  \A schedule_type \in Categories :
    Len(data[schedule_type]) = sanity_check[schedule_type].send

C23_Witness ==
  /\ pc = "schedule_extracted"
  /\ Len(data["cover"]) >= 2
  /\ Len(data["scheduleA2"]) >= 6
  /\ Len(data["scheduleA2"]) > sanity_check["scheduleA2"].received

\* a step that stays at its position is an iteration of a loop: a page loop
\* raises the page index, below a bound that stays as page 1 set it, and a
\* load loop goes on to the next chunk or the next category of a row store
\* that stays as it is
C24_Step ==
  /\ PhaseOf(pc') >= PhaseOf(pc)
  /\ pc' = pc =>
       CASE pc = "cover_loop" ->
              /\ current_page' > current_page
              /\ current_page' <= total_pages + 1
              /\ total_pages' = total_pages
         [] pc = "schedule_loop" ->
              /\ current_page' > current_page
              /\ current_page' <= total_pages
              /\ total_pages' = total_pages
         [] pc = "cover_load" ->
              /\ chunk_idx' > chunk_idx
              /\ chunk_idx' <= Len(chunk_starts(data["cover"])) + 1
              /\ data' = data
         [] pc = "schedule_load" ->
              /\ data' = data
              /\ schedule_idx' <= Len(schedules) + 1
              /\ \/ schedule_idx' > schedule_idx
                 \/ /\ schedule_idx' = schedule_idx
                    /\ chunk_idx' > chunk_idx
                    /\ chunk_idx' <=
                         Len(chunk_starts(data[schedules[schedule_idx]])) + 1
         [] OTHER -> FALSE

\* C24: a run of sync() in which every external call returns ends, in
\* success or halted: each iteration of a page loop raises the page index
\* towards the bound page 1 set, each iteration of the chunk loop goes on
\* in a row store that no longer changes
C24_Terminates == <>(pc \in {"done", "halted"}) /\ [][C24_Step]_vars

C24_Witness ==
  /\ pc = "done"
  /\ CoverPagesRequested = << 1, 2 >>
  /\ SchedulePagesRequested = << 1, 2, 3 >>
  /\ Len(WritesOf("scheduleE")) = 2

====
